---- MODULE Spec2Model ----
(***************************************************************************)
(* The chess engine manager of AIChessBot                                  *)
(* (backend/app/services/engine_manager.py) and the application lifespan   *)
(* that owns it (backend/app/main.py).                                     *)
(*                                                                         *)
(* The manager holds two optional engine handles, stockfish_engine and     *)
(* maia_engine.  Each handle is a UCI protocol object of the python-chess  *)
(* library (chess.engine.popen_uci) driving one subprocess.  All           *)
(* operations are asyncio coroutines run by one event loop: the code       *)
(* between two suspending awaits runs atomically, so every action below    *)
(* is one such stretch of code.                                            *)
(*                                                                         *)
(* The library below the manager is modelled by what its calls do:         *)
(*   - every command goes through the protocol's communicate(): one        *)
(*     command runs on the subprocess, at most one waits as next_command;  *)
(*     a new command stops the running one and displaces the waiting one;  *)
(*   - analyse() returns what the search had when it ended, play() is      *)
(*     cancelled when it is stopped, configure() completes as soon as it   *)
(*     starts, quit() waits for the subprocess to exit;                    *)
(*   - none of these calls has a timeout.                                  *)
(***************************************************************************)
EXTENDS Integers, Sequences, FiniteSets, TLC

\* ------------------------------------------------------------ bounds
NumCallers == 2
\* How many times shutdown() may be called.
MaxShutdowns == 2

Callers == 1..NumCallers
\* The position (FEN) of a request: every caller asks about a position of
\* its own, so that an answer shows whose request it answers.
RequestFen(c) == c
Engines == {"stockfish", "maia"}
\* ELO targets of get_best_move; 0 stands for "elo is None" (falsy in Python).
EloTargets == {1500, 1800}
NoElo == 0
\* The one move a request may ask to evaluate on its board.
Moves == {"m"}
\* depth and multipv of an analysis request, depth of an evaluation request.
AnalysisDepths == {20}
MultiPVs == {3}
EvaluationDepths == {10, 18}

VARIABLES
    life,              \* position of the lifespan coroutine (main.py)
    stockfish_path,    \* self._stockfish_path: "None", or a path by whether its file exists
    maia_path,         \* self._maia_path: "None", or a path by whether its file exists
    stockfish_engine,  \* self.stockfish_engine: "None" or "handle"
    maia_engine,       \* self.maia_engine: "None" or "handle"
    alive,             \* per engine: state of its subprocess
    command,           \* per engine: the protocol's running command
    next_command,      \* per engine: the protocol's waiting command
    limit,             \* per engine: UCI_Elo in force (NoElo: UCI_LimitStrength off)
    quit_sent,         \* per engine: how many times quit() was called on its handle
    prev,              \* per engine: while a later initialize() launches it again, the subprocess the handle still refers to
    orphans,           \* per engine: running subprocesses no handle refers to any more
    reinitialized,     \* how many times initialize() was called again
    pc,                \* per caller: position in its request
    op,                \* per caller: the request and its arguments
    eng,               \* per caller: local variable `engine` of the running call
    fut,               \* per caller: the future of its last awaited engine call
    board,             \* per caller: the chess.Board of the request
    res,               \* per caller: the value its last awaited engine call gave
    before_analysis,   \* per caller: before_analysis of evaluate_move_quality
    outcome,           \* per caller: how the request ended
    searches,          \* per caller: calls of engine.analyse / engine.play made for the request
    evaluation,        \* per caller: the dict evaluate_move_quality returned
    active_games,      \* api/game.py: active_games, per game id the stored game or NoGame
    issued,            \* api/game.py: how many game ids uuid4() has issued
    response,          \* api/game.py: the response to the last game request
    call,              \* a call of one of the manager's pure methods: its arguments
    ret                \* what that call returned

vars == <<life, stockfish_path, maia_path, stockfish_engine, maia_engine, alive,
          command, next_command, limit, quit_sent, prev, orphans, reinitialized,
          pc, op, eng, fut, board, res, before_analysis, outcome, searches,
          evaluation, active_games, issued, response, call, ret>>

path_vars == <<stockfish_path, maia_path>>
relaunch_vars == <<prev, orphans, reinitialized>>
mgr_vars == <<life, path_vars, stockfish_engine, maia_engine, quit_sent, relaunch_vars>>
calc_vars == <<call, ret>>
game_vars == <<active_games, issued, response>>
caller_vars == <<pc, op, eng, fut, board, res, before_analysis, outcome, searches, evaluation>>
proto_vars == <<command, next_command>>

\* How many games may be started, how many may be stored at a time, how many
\* moves made in them, and how many of a game's moves may be pawn moves.
MaxGames == 2
MaxStoredGames == 1
MaxGameMoves == 17
MaxPawnMoves == 1
\* The game ids uuid4() issues, in the order it issues them.
GameIds == 1..MaxGames

\* ------------------------------------------------------------ values
NoGame == [game_id |-> 0]
NoResponse == [request |-> "none"]
NoCmd == [caller |-> 0, kind |-> "none", arg |-> <<>>, depth |-> 0, multipv |-> 0, stopping |-> FALSE]
NoOp == [kind |-> "none", use_maia |-> FALSE, elo |-> NoElo, move |-> "m", depth |-> 0, multipv |-> 0,
         request |-> <<>>]
NoBoard == [root |-> 0, move_stack |-> <<>>]
NoRes == [position |-> <<>>, full |-> FALSE]
NoCall == [method |-> "none"]
NoRet == [type |-> "none"]
NoEvaluation == [best_move |-> <<>>, before_score |-> <<>>, after_score |-> <<>>]

\* move.uci() of a chess.Move, and None.
Uci(move) == <<"uci", move>>
None == <<"None">>

\* chess.Board(fen): a fresh board on the position, nothing pushed.
Board(fen) == [root |-> fen, move_stack |-> <<>>]
\* board.push(move) and board.pop() of python-chess.
Push(b, m) == [b EXCEPT !.move_stack = Append(@, m)]
Pop(b) == [b EXCEPT !.move_stack = SubSeq(@, 1, Len(@) - 1)]
\* The position a board stands for (what is sent to the engine).
Fen(b) == <<b.root, b.move_stack>>

\* self.stockfish_engine / self.maia_engine by engine name.
Handle(e) == IF e = "stockfish" THEN stockfish_engine ELSE maia_engine

\* ------------------------------------------------------------ probes
is_ready == stockfish_engine # "None"
stockfish_available == stockfish_engine # "None"
maia_available == maia_engine # "None"

\* engine = self.maia_engine if use_maia and self.maia_engine else self.stockfish_engine
\* ("none" when the selected handle is None).
SelectEngine(use_maia) ==
    IF use_maia /\ maia_engine # "None" THEN "maia"
    ELSE IF stockfish_engine # "None" THEN "stockfish"
    ELSE "none"

\* ------------------------------------------------------------ Init
MgrInit ==
    /\ life = "new"
    /\ stockfish_path = "None"
    /\ maia_path = "None"
    /\ stockfish_engine = "None"
    /\ maia_engine = "None"
    /\ alive = [e \in Engines |-> "none"]
    /\ command = [e \in Engines |-> NoCmd]
    /\ next_command = [e \in Engines |-> NoCmd]
    /\ limit = [e \in Engines |-> NoElo]
    /\ quit_sent = [e \in Engines |-> 0]
    /\ prev = [e \in Engines |-> "none"]
    /\ orphans = [e \in Engines |-> 0]
    /\ reinitialized = 0
    /\ pc = [c \in Callers |-> "idle"]
    /\ op = [c \in Callers |-> NoOp]
    /\ eng = [c \in Callers |-> "none"]
    /\ fut = [c \in Callers |-> "none"]
    /\ board = [c \in Callers |-> NoBoard]
    /\ res = [c \in Callers |-> NoRes]
    /\ before_analysis = [c \in Callers |-> NoRes]
    /\ outcome = [c \in Callers |-> "none"]
    /\ searches = [c \in Callers |-> 0]
    /\ evaluation = [c \in Callers |-> NoEvaluation]

\* api/game.py as imported: active_games = {} (line 19), nothing requested.
GameInit ==
    /\ active_games = [g \in GameIds |-> NoGame]
    /\ issued = 0
    /\ response = NoResponse

Init ==
    /\ MgrInit
    /\ GameInit
    /\ call = NoCall
    /\ ret = NoRet

\* ------------------------------------------------------------ the protocol
\* State of a configured path: not set, set to a file that is missing, set to
\* a file that exists.
PathStates == {"unset", "missing", "exists"}

\* StockfishPathExists without the test of line 56: whatever path was
\* resolved is launched, also None.
StockfishPathExists_no_check(configured, detected) == configured # "missing"

\* Whether _init_stockfish finds a file to launch: the configured path if one
\* is set, else what _find_stockfish detected; launched only if it exists.
StockfishPathExists(configured, detected) ==
    IF configured # "unset" THEN configured = "exists" ELSE detected

\* Whether _init_maia finds a file to launch: only a configured, existing path.
MaiaPathExists(configured) == configured = "exists"

\* self._stockfish_path after lines 50-54: the configured path if one is set,
\* else the existing file _find_stockfish returned, or None.
StockfishPath(configured, detected) ==
    IF configured # "unset" THEN configured
    ELSE IF detected THEN "exists" ELSE "None"

\* self._maia_path after lines 68-69: assigned only from a configured path.
MaiaPath(configured) == IF configured # "unset" THEN configured ELSE "None"

\* communicate under one lock for the whole manager: a command is handed to
\* an engine only while the other engine has none.
communicate_one_lock(e, cmd) ==
    /\ command[IF e = "stockfish" THEN "maia" ELSE "stockfish"].caller = 0
    /\ fut' = [fut EXCEPT ![cmd.caller] = "pending"]
    /\ command' = [command EXCEPT ![e] = cmd]
    /\ next_command' = next_command
    /\ command[e].caller = 0

\* Protocol.communicate(command) on a live protocol: the command becomes
\* next_command, displacing (and cancelling) a waiting one; it starts at once
\* if nothing runs, else the running command is told to stop.  A stopped
\* play() has its result cancelled; a stopped analyse() ends with what it has.
communicate(e, cmd) ==
    LET run == command[e]
        wait == next_command[e]
        f1 == [fut EXCEPT ![cmd.caller] = "pending"]
        f2 == IF wait.caller # 0 THEN [f1 EXCEPT ![wait.caller] = "cancelled"] ELSE f1
        f3 == IF run.caller # 0 /\ ~run.stopping /\ run.kind = "play"
              THEN [f2 EXCEPT ![run.caller] = "cancelled"] ELSE f2
    IN  /\ fut' = f3
        /\ IF run.caller = 0
           THEN /\ command' = [command EXCEPT ![e] = cmd]
                /\ next_command' = next_command
           ELSE /\ command' = [command EXCEPT ![e].stopping = TRUE]
                /\ next_command' = [next_command EXCEPT ![e] = cmd]

\* engine.analyse(board, Limit(depth=depth), multipv=multipv), engine.play and
\* engine.configure as commands of the protocol.
AnalyseCmd(c, b, depth, multipv) ==
    [caller |-> c, kind |-> "analyse", arg |-> Fen(b), depth |-> depth,
     multipv |-> multipv, stopping |-> FALSE]
PlayCmd(c, b) == [NoCmd EXCEPT !.caller = c, !.kind = "play", !.arg = Fen(b)]
ConfigureCmd(c, elo) == [NoCmd EXCEPT !.caller = c, !.kind = "configure", !.arg = <<elo>>]

\* The requests the protocol of engine e holds and has not finished.
InFlight(e) ==
    {c \in Callers : command[e].caller = c \/ next_command[e].caller = c}

\* Whether the caller of a command still waits for its result (the caller of
\* a stopped play() was cancelled and has left).
Awaited(cmd) == cmd.caller # 0 /\ ~(cmd.kind = "play" /\ cmd.stopping)

\* The UCI handshake of a starting subprocess completes.
EngineHandshake(e) ==
    /\ alive[e] = "starting"
    /\ alive' = [alive EXCEPT ![e] = "running"]
    /\ UNCHANGED <<calc_vars, game_vars, mgr_vars, caller_vars, proto_vars, limit>>

\* The subprocess answers its running command (bestmove): the command's
\* caller gets its result, and the waiting command starts.  A configure
\* that starts applies its options and completes in the same step.
EngineAnswer(e) ==
    /\ alive[e] = "running"
    /\ command[e].caller # 0
    /\ LET run == command[e]
           wait == next_command[e]
           f1 == IF run.kind = "analyse"
                 THEN [fut EXCEPT ![run.caller] = IF run.stopping THEN "stopped" ELSE "ok"]
                 ELSE IF ~run.stopping THEN [fut EXCEPT ![run.caller] = "ok"] ELSE fut
           answered == run.kind = "analyse" \/ ~run.stopping
       IN  /\ res' = IF answered
                     THEN [res EXCEPT ![run.caller] =
                              [position |-> run.arg, full |-> ~run.stopping]]
                     ELSE res
           /\ IF wait.kind = "configure"
              THEN /\ limit' = [limit EXCEPT ![e] = wait.arg[1]]
                   /\ fut' = [f1 EXCEPT ![wait.caller] = "ok"]
                   /\ command' = [command EXCEPT ![e] = NoCmd]
              ELSE /\ limit' = limit
                   /\ fut' = f1
                   /\ command' = [command EXCEPT ![e] = wait]
           /\ next_command' = [next_command EXCEPT ![e] = NoCmd]
    /\ UNCHANGED <<calc_vars, game_vars, mgr_vars, alive, pc, op, eng, board, before_analysis, evaluation, outcome, searches>>

\* The subprocess exits: before its handshake the launch has failed (popen_uci
\* raises), after it the exit is a crash or the answer to quit, and
\* connection_lost ends both commands with EngineTerminatedError.
EngineExit(e) ==
    /\ alive[e] \in {"starting", "running"}
    /\ alive' = [alive EXCEPT ![e] = IF alive[e] = "starting" THEN "failed" ELSE "exited"]
    /\ fut' = [c \in Callers |->
                 IF \/ (Awaited(command[e]) /\ command[e].caller = c)
                    \/ next_command[e].caller = c
                 THEN "terminated" ELSE fut[c]]
    /\ command' = [command EXCEPT ![e] = NoCmd]
    /\ next_command' = [next_command EXCEPT ![e] = NoCmd]
    /\ UNCHANGED <<calc_vars, game_vars, mgr_vars, limit, pc, op, eng, board, res, before_analysis, evaluation, outcome, searches>>

\* The subprocess stops answering for good (it neither answers nor exits):
\* before its handshake the launch stalls, after it the engine hangs.
EngineHang(e) ==
    /\ alive[e] \in {"starting", "running"}
    /\ alive' = [alive EXCEPT ![e] = IF alive[e] = "starting" THEN "stalled" ELSE "hung"]
    /\ UNCHANGED <<calc_vars, game_vars, mgr_vars, caller_vars, proto_vars, limit>>

\* ------------------------------------------------------------ lifespan
\* _init_maia up to its await: popen_uci is called only for a configured,
\* existing path; otherwise initialize() returns.
init_maia ==
    \E configured \in PathStates :
        /\ maia_path' = MaiaPath(configured)
        /\ IF MaiaPathExists(configured)
           THEN /\ alive' = [alive EXCEPT !["maia"] = "starting"]
                /\ life' = "popen_maia"
           ELSE /\ alive' = alive
                /\ life' = "serving"

\* initialize() up to its first await: _init_stockfish resolves the path and
\* calls popen_uci if the file exists; else it goes on with _init_maia.
initialize ==
    /\ life = "new"
    /\ \E configured \in PathStates, detected \in BOOLEAN :
        /\ stockfish_path' = StockfishPath(configured, detected)
        /\ IF StockfishPathExists(configured, detected)
           THEN /\ alive' = [alive EXCEPT !["stockfish"] = "starting"]
                /\ life' = "popen_stockfish"
                /\ maia_path' = maia_path
           ELSE init_maia
    /\ UNCHANGED <<calc_vars, game_vars, relaunch_vars, stockfish_engine, maia_engine, quit_sent, caller_vars, proto_vars, limit>>

\* Whether popen_uci on the subprocess of e has ended, and how: it returns
\* the protocol once the handshake is through (whatever the subprocess did
\* since), and raises if the subprocess exited before.
PopenOver(e) == alive[e] \notin {"none", "starting", "stalled"}
Started(e) == alive[e] \in {"running", "hung", "exited"}

\* init_stockfish_resume without the try/except of lines 48-63: the exception
\* of a failed launch leaves initialize().
init_stockfish_resume_raises ==
    /\ life = "popen_stockfish"
    /\ PopenOver("stockfish")
    /\ IF Started("stockfish")
       THEN /\ stockfish_engine' = "handle"
            /\ init_maia
       ELSE /\ stockfish_engine' = "None"
            /\ life' = "init_raised"
            /\ UNCHANGED <<alive, maia_path>>
    /\ UNCHANGED <<calc_vars, game_vars, relaunch_vars, stockfish_path, maia_engine, quit_sent, caller_vars, proto_vars, limit>>

\* popen_uci of Stockfish returned or raised: the handle is stored on success,
\* the exception is logged and dropped on failure; then _init_maia runs.
init_stockfish_resume ==
    /\ life = "popen_stockfish"
    /\ PopenOver("stockfish")
    /\ stockfish_engine' = IF Started("stockfish") THEN "handle" ELSE "None"
    /\ init_maia
    /\ UNCHANGED <<calc_vars, game_vars, relaunch_vars, stockfish_path, maia_engine, quit_sent, caller_vars, proto_vars, limit>>

\* popen_uci of Maia returned or raised; initialize() returns.
init_maia_resume ==
    /\ life = "popen_maia"
    /\ PopenOver("maia")
    /\ maia_engine' = IF Started("maia") THEN "handle" ELSE "None"
    /\ life' = "serving"
    /\ UNCHANGED <<calc_vars, game_vars, relaunch_vars, path_vars, stockfish_engine, quit_sent, alive, caller_vars, proto_vars, limit>>

\* await engine.quit(): "quit" is written, then the call waits for the
\* subprocess to exit.  On a subprocess that has already exited the wait is
\* over at once if the event loop's pipe transport drops the write to the
\* closed pipe, and the call raises if the transport refuses it.
QuitOutcomes(e) ==
    IF alive[e] = "exited" THEN {"returned", "raised"} ELSE {"waiting"}

\* shutdown(), lines 102-104: the Maia part.
shutdown_maia(qs) ==
    IF maia_engine # "None"
    THEN \E o \in QuitOutcomes("maia") :
            /\ quit_sent' = [qs EXCEPT !["maia"] = @ + 1]
            /\ life' = CASE o = "returned" -> "stopped"
                         [] o = "raised" -> "raised_103"
                         [] OTHER -> "quit_maia"
    ELSE /\ quit_sent' = qs
         /\ life' = "stopped"

\* shutdown() up to its first suspending await; it may be called again once
\* a call of it has returned.
shutdown ==
    /\ life \in {"serving", "stopped"}
    /\ \A e \in Engines : quit_sent[e] < MaxShutdowns
    /\ IF stockfish_engine # "None"
       THEN \E o \in QuitOutcomes("stockfish") :
               CASE o = "returned" ->
                       shutdown_maia([quit_sent EXCEPT !["stockfish"] = @ + 1])
                 [] o = "raised" ->
                       /\ quit_sent' = [quit_sent EXCEPT !["stockfish"] = @ + 1]
                       /\ life' = "raised_99"
                 [] OTHER ->
                       /\ quit_sent' = [quit_sent EXCEPT !["stockfish"] = @ + 1]
                       /\ life' = "quit_stockfish"
       ELSE shutdown_maia(quit_sent)
    /\ UNCHANGED <<calc_vars, game_vars, relaunch_vars, path_vars, stockfish_engine, maia_engine, alive, caller_vars, proto_vars, limit>>

\* The quit of Stockfish is over (its subprocess exited): the Maia part runs.
shutdown_resume_stockfish ==
    /\ life = "quit_stockfish"
    /\ alive["stockfish"] = "exited"
    /\ shutdown_maia(quit_sent)
    /\ UNCHANGED <<calc_vars, game_vars, relaunch_vars, path_vars, stockfish_engine, maia_engine, alive, caller_vars, proto_vars, limit>>

\* The quit of Maia is over: shutdown() returns.
shutdown_resume_maia ==
    /\ life = "quit_maia"
    /\ alive["maia"] = "exited"
    /\ life' = "stopped"
    /\ UNCHANGED <<calc_vars, game_vars, relaunch_vars, path_vars, stockfish_engine, maia_engine, quit_sent, alive, caller_vars, proto_vars, limit>>

\* ------------------------------------------------------------ requests
\* The API serves requests once initialize() has returned (main.py:39-40).
Serving == life \notin {"new", "popen_stockfish", "popen_maia"}

WaitPcs == {"analyse_wait", "configure_wait", "play_wait", "before_wait", "after_wait"}

\* How a call ends for the future it awaited.
Raised(f) == CASE f = "terminated" -> "terminated"
               [] f = "cancelled" -> "cancelled"
               [] OTHER -> "ok"

\* The call of caller c ends with `how`: it returns or raises to the handler.
Finish(c, how) ==
    /\ pc' = [pc EXCEPT ![c] = "done"]
    /\ outcome' = [outcome EXCEPT ![c] = how]
    /\ UNCHANGED <<fut, command, next_command>>

\* analyze_position(b, use_maia=...) up to the await of engine.analyse
\* (lines 137-147): no engine raises RuntimeError, an exited subprocess makes
\* the library raise at once, else the search is requested and c waits.
analyze_position_call(c, b, depth, multipv, use_maia, wait_pc) ==
    LET engine == SelectEngine(use_maia)
    IN  /\ eng' = [eng EXCEPT ![c] = engine]
        /\ searches' = IF engine = "none" THEN searches
                       ELSE [searches EXCEPT ![c] = @ + 1]
        /\ IF engine = "none" THEN Finish(c, "no_engine")
           ELSE IF alive[engine] = "exited" THEN Finish(c, "terminated")
           ELSE /\ communicate(engine, AnalyseCmd(c, b, depth, multipv))
                /\ pc' = [pc EXCEPT ![c] = wait_pc]
                /\ outcome' = outcome

\* analyze_position that starts an engine on demand: with no engine held it
\* launches Stockfish before it reports the missing engine.
analyze_position_starts_engine(c) ==
    /\ Serving
    /\ pc[c] = "idle"
    /\ \E fen \in {RequestFen(c)}, depth \in AnalysisDepths, multipv \in MultiPVs, use_maia \in BOOLEAN :
        /\ op' = [op EXCEPT ![c] = [NoOp EXCEPT !.kind = "analyze", !.use_maia = use_maia,
                                                !.depth = depth, !.multipv = multipv]]
        /\ board' = [board EXCEPT ![c] = Board(fen)]
        /\ analyze_position_call(c, Board(fen), depth, multipv, use_maia, "analyse_wait")
        /\ alive' = IF SelectEngine(use_maia) = "none"
                    THEN [alive EXCEPT !["stockfish"] = "starting"]
                    ELSE alive
    /\ UNCHANGED <<calc_vars, game_vars, mgr_vars, limit, res, before_analysis, evaluation>>

\* POST /position -> analyze_position: a request with its own board.
analyze_position(c) ==
    /\ Serving
    /\ pc[c] = "idle"
    /\ \E fen \in {RequestFen(c)}, depth \in AnalysisDepths, multipv \in MultiPVs, use_maia \in BOOLEAN :
        /\ op' = [op EXCEPT ![c] = [NoOp EXCEPT !.kind = "analyze", !.use_maia = use_maia,
                                                !.depth = depth, !.multipv = multipv]]
        /\ board' = [board EXCEPT ![c] = Board(fen)]
        /\ analyze_position_call(c, Board(fen), depth, multipv, use_maia, "analyse_wait")
    /\ UNCHANGED <<calc_vars, game_vars, mgr_vars, alive, limit, res, before_analysis, evaluation>>

\* analyze_position_resume with one retry: after a failed search on an
\* engine that runs, the search is requested once more.
analyze_position_resume_retries(c) ==
    /\ pc[c] = "analyse_wait"
    /\ fut[c] # "pending"
    /\ IF Raised(fut[c]) # "ok" /\ searches[c] < 2 /\ alive[eng[c]] = "running"
       THEN /\ communicate(eng[c], AnalyseCmd(c, board[c], op[c].depth, op[c].multipv))
            /\ searches' = [searches EXCEPT ![c] = @ + 1]
            /\ UNCHANGED <<pc, outcome>>
       ELSE /\ Finish(c, Raised(fut[c]))
            /\ searches' = searches
    /\ UNCHANGED <<calc_vars, game_vars, mgr_vars, alive, limit, op, eng, board, res, before_analysis, evaluation>>

\* engine.analyse returned or raised: the lines are returned, an exception is
\* logged and raised again (lines 149-165).
analyze_position_resume(c) ==
    /\ pc[c] = "analyse_wait"
    /\ fut[c] # "pending"
    /\ Finish(c, Raised(fut[c]))
    /\ UNCHANGED <<calc_vars, game_vars, mgr_vars, alive, limit, op, eng, board, res, before_analysis, evaluation, searches>>

\* engine.play(board, ...) being called (lines 195-200).
play_call(c, engine, b) ==
    /\ searches' = [searches EXCEPT ![c] = @ + 1]
    /\ IF alive[engine] = "exited" THEN Finish(c, "terminated")
       ELSE /\ communicate(engine, PlayCmd(c, b))
            /\ pc' = [pc EXCEPT ![c] = "play_wait"]
            /\ outcome' = outcome

\* NeedsEloLimit without the second test of line 192: the limit is set on
\* whichever engine was selected.
NeedsEloLimit_any_engine(elo, engine) == elo # NoElo

\* if elo and self.stockfish_engine == engine (line 192); engine is not None here.
NeedsEloLimit(elo, engine) == elo # NoElo /\ engine = "stockfish"

\* GET /best-move -> get_best_move up to its first suspending await
\* (lines 186-200).  With an ELO target on Stockfish, _set_elo_limit awaits
\* engine.configure first: on an idle protocol it completes without
\* suspending and the search is requested in the same step.
get_best_move(c) ==
    /\ Serving
    /\ pc[c] = "idle"
    /\ \E fen \in {RequestFen(c)}, elo \in {NoElo} \cup EloTargets, use_maia \in BOOLEAN :
        LET engine == SelectEngine(use_maia)
            b == Board(fen)
        IN  /\ op' = [op EXCEPT ![c] = [NoOp EXCEPT !.kind = "best_move",
                                          !.use_maia = use_maia, !.elo = elo]]
            /\ board' = [board EXCEPT ![c] = b]
            /\ eng' = [eng EXCEPT ![c] = engine]
            /\ IF engine = "none"
               THEN Finish(c, "no_engine") /\ limit' = limit /\ searches' = searches
               ELSE IF NeedsEloLimit(elo, engine)
               THEN IF alive[engine] = "exited"
                    THEN Finish(c, "terminated") /\ limit' = limit /\ searches' = searches
                    ELSE IF command[engine].caller = 0
                    THEN /\ limit' = [limit EXCEPT ![engine] = elo]
                         /\ play_call(c, engine, b)
                    ELSE /\ communicate(engine, ConfigureCmd(c, elo))
                         /\ pc' = [pc EXCEPT ![c] = "configure_wait"]
                         /\ outcome' = outcome
                         /\ limit' = limit
                         /\ searches' = searches
               ELSE play_call(c, engine, b) /\ limit' = limit
    /\ UNCHANGED <<calc_vars, game_vars, mgr_vars, alive, res, before_analysis, evaluation>>

\* engine.configure returned or raised: the search is requested, or the
\* exception leaves get_best_move (line 193 is outside the try).
get_best_move_configured(c) ==
    /\ pc[c] = "configure_wait"
    /\ fut[c] # "pending"
    /\ IF fut[c] = "ok"
       THEN play_call(c, eng[c], board[c])
       ELSE Finish(c, Raised(fut[c])) /\ searches' = searches
    /\ UNCHANGED <<calc_vars, game_vars, mgr_vars, alive, limit, op, eng, board, res, before_analysis, evaluation>>

\* get_best_move_resume with an except clause that gives the engine up: a
\* failed search clears the handle of the engine it ran on.
get_best_move_resume_drops_engine(c) ==
    /\ pc[c] = "play_wait"
    /\ fut[c] # "pending"
    /\ Finish(c, Raised(fut[c]))
    /\ stockfish_engine' = IF Raised(fut[c]) # "ok" /\ eng[c] = "stockfish"
                           THEN "None" ELSE stockfish_engine
    /\ maia_engine' = IF Raised(fut[c]) # "ok" /\ eng[c] = "maia"
                      THEN "None" ELSE maia_engine
    /\ UNCHANGED <<calc_vars, game_vars, relaunch_vars, life, path_vars, quit_sent, alive, limit, op, eng, board, res, before_analysis, evaluation, searches>>

\* engine.play returned or raised (lines 201-204).
get_best_move_resume(c) ==
    /\ pc[c] = "play_wait"
    /\ fut[c] # "pending"
    /\ Finish(c, Raised(fut[c]))
    /\ UNCHANGED <<calc_vars, game_vars, mgr_vars, alive, limit, op, eng, board, res, before_analysis, evaluation, searches>>

\* evaluate_move_quality that falls back to Maia: without a Stockfish handle
\* the analysis is asked of the Maia engine.
evaluate_move_quality_falls_back(c) ==
    /\ Serving
    /\ pc[c] = "idle"
    /\ \E fen \in {RequestFen(c)}, move \in Moves, depth \in EvaluationDepths :
        /\ op' = [op EXCEPT ![c] = [NoOp EXCEPT !.kind = "evaluate", !.move = move, !.depth = depth]]
        /\ board' = [board EXCEPT ![c] = Board(fen)]
        /\ analyze_position_call(c, Board(fen), depth, 1, stockfish_engine = "None", "before_wait")
    /\ UNCHANGED <<calc_vars, game_vars, mgr_vars, alive, limit, res, before_analysis, evaluation>>

\* POST /evaluate-move -> evaluate_move_quality up to the await of the
\* pre-move analysis (lines 246-250).
evaluate_move_quality_of(c, fen, move, depth) ==
    /\ op' = [op EXCEPT ![c] = [NoOp EXCEPT !.kind = "evaluate", !.move = move, !.depth = depth]]
    /\ board' = [board EXCEPT ![c] = Board(fen)]
    /\ IF stockfish_engine = "None"
       THEN Finish(c, "stockfish_required") /\ eng' = eng /\ searches' = searches
       ELSE analyze_position_call(c, Board(fen), depth, 1, FALSE, "before_wait")
    /\ UNCHANGED <<calc_vars, game_vars, mgr_vars, alive, limit, res, before_analysis, evaluation>>

\* A request with a position and a legal move of its own.
evaluate_move_quality(c) ==
    /\ Serving
    /\ pc[c] = "idle"
    /\ \E fen \in {RequestFen(c)}, move \in Moves, depth \in EvaluationDepths :
        evaluate_move_quality_of(c, fen, move, depth)

\* The pre-move analysis returned or raised (lines 250-257): on success the
\* move is pushed on the board and the post-move analysis is called.
evaluate_move_quality_pushed(c) ==
    /\ pc[c] = "before_wait"
    /\ fut[c] # "pending"
    /\ IF Raised(fut[c]) = "ok"
       THEN /\ before_analysis' = [before_analysis EXCEPT ![c] = res[c]]
            /\ board' = [board EXCEPT ![c] = Push(board[c], op[c].move)]
            /\ analyze_position_call(c, Push(board[c], op[c].move), op[c].depth, 1, FALSE, "after_wait")
       ELSE /\ Finish(c, Raised(fut[c]))
            /\ UNCHANGED <<before_analysis, board, eng, searches>>
    /\ UNCHANGED <<calc_vars, game_vars, mgr_vars, alive, limit, op, res, evaluation>>

\* analysis[0] of a list analyze_position returned: the first line of the
\* analysis of that position (of a search that ran to its end or was cut
\* short), and its ["move"] and ["score"]["value"].
FirstLine(analysis) ==
    [position |-> analysis.position, full |-> analysis.full, index |-> 1]
LineMove(line) == <<"move", line>>
LineValue(line) == <<"value", line>>

\* EvaluationDict with best_move read from after_analysis.
EvaluationDict_best_of_after(before, after) ==
    [best_move |-> LineMove(FirstLine(after)),
     before_score |-> LineValue(FirstLine(before)),
     after_score |-> LineValue(FirstLine(after))]

\* The score and best-move entries of the dict of lines 269-276, from the
\* two analyses (lines 251, 258, 275).
EvaluationDict(before, after) ==
    [best_move |-> LineMove(FirstLine(before)),
     before_score |-> LineValue(FirstLine(before)),
     after_score |-> LineValue(FirstLine(after))]

\* evaluate_move_quality_resume without line 261 (board.pop() forgotten).
evaluate_move_quality_resume_no_pop(c) ==
    /\ pc[c] = "after_wait"
    /\ fut[c] # "pending"
    /\ Finish(c, Raised(fut[c]))
    /\ evaluation' = IF Raised(fut[c]) = "ok"
                     THEN [evaluation EXCEPT ![c] = EvaluationDict(before_analysis[c], res[c])]
                     ELSE evaluation
    /\ UNCHANGED <<calc_vars, game_vars, mgr_vars, alive, limit, op, eng, board, res, before_analysis, searches>>

\* The post-move analysis returned or raised (lines 257-276): on success the
\* move is popped and the evaluation returned; an exception leaves the
\* function at line 257.
evaluate_move_quality_resume(c) ==
    /\ pc[c] = "after_wait"
    /\ fut[c] # "pending"
    /\ Finish(c, Raised(fut[c]))
    /\ board' = IF Raised(fut[c]) = "ok"
                THEN [board EXCEPT ![c] = Pop(board[c])]
                ELSE board
    /\ evaluation' = IF Raised(fut[c]) = "ok"
                     THEN [evaluation EXCEPT ![c] = EvaluationDict(before_analysis[c], res[c])]
                     ELSE evaluation
    /\ UNCHANGED <<calc_vars, game_vars, mgr_vars, alive, limit, op, eng, res, before_analysis, searches>>

\* The response is sent; the handler's locals are gone.
Return(c) ==
    /\ pc[c] = "done"
    /\ pc' = [pc EXCEPT ![c] = "idle"]
    /\ op' = [op EXCEPT ![c] = NoOp]
    /\ eng' = [eng EXCEPT ![c] = "none"]
    /\ board' = [board EXCEPT ![c] = NoBoard]
    /\ res' = [res EXCEPT ![c] = NoRes]
    /\ before_analysis' = [before_analysis EXCEPT ![c] = NoRes]
    /\ outcome' = [outcome EXCEPT ![c] = "none"]
    /\ searches' = [searches EXCEPT ![c] = 0]
    /\ evaluation' = [evaluation EXCEPT ![c] = NoEvaluation]
    /\ fut' = [fut EXCEPT ![c] = "none"]
    /\ UNCHANGED <<calc_vars, game_vars, mgr_vars, alive, limit, command, next_command>>

\* ------------------------------------------------------------ specification
Next ==
    \/ initialize
    \/ init_stockfish_resume
    \/ init_maia_resume
    \/ shutdown
    \/ shutdown_resume_stockfish
    \/ shutdown_resume_maia
    \/ \E e \in Engines : EngineHandshake(e)
    \/ \E e \in Engines : EngineAnswer(e)
    \/ \E e \in Engines : EngineExit(e)
    \/ \E e \in Engines : EngineHang(e)
    \/ \E c \in Callers : analyze_position(c)
    \/ \E c \in Callers : analyze_position_resume(c)
    \/ \E c \in Callers : get_best_move(c)
    \/ \E c \in Callers : get_best_move_configured(c)
    \/ \E c \in Callers : get_best_move_resume(c)
    \/ \E c \in Callers : evaluate_move_quality(c)
    \/ \E c \in Callers : evaluate_move_quality_pushed(c)
    \/ \E c \in Callers : evaluate_move_quality_resume(c)
    \/ \E c \in Callers : Return(c)

Spec == Init /\ [][Next]_vars

\* The event loop runs every coroutine that can resume, a subprocess that has
\* not hung answers its command and its handshake, and exits when told to
\* quit.  Nothing obliges a client to send a request, a subprocess to crash
\* or hang, or the application to shut down.
Fairness ==
    /\ WF_vars(init_stockfish_resume)
    /\ WF_vars(init_maia_resume)
    /\ WF_vars(shutdown_resume_stockfish)
    /\ WF_vars(shutdown_resume_maia)
    /\ \A e \in Engines :
        /\ WF_vars(EngineHandshake(e))
        /\ WF_vars(EngineAnswer(e))
        /\ WF_vars(quit_sent[e] > 0 /\ EngineExit(e))
    /\ \A c \in Callers :
        /\ WF_vars(analyze_position_resume(c))
        /\ WF_vars(get_best_move_configured(c))
        /\ WF_vars(get_best_move_resume(c))
        /\ WF_vars(evaluate_move_quality_pushed(c))
        /\ WF_vars(evaluate_move_quality_resume(c))
        /\ WF_vars(Return(c))

FairSpec == Spec /\ Fairness


\* ------------------------------------------------------------ initialize() again
\* How many times initialize() may be called again on the same manager.
MaxReinitializations == 1

\* A subprocess that runs (whether it answers or not).
Runs(state) == state \in {"starting", "stalled", "running", "hung"}

\* _init_maia of a later initialize() up to its await (lines 65-75), given
\* the subprocess states a and the still referenced subprocesses p that
\* _init_stockfish left: self._maia_path is assigned only from a configured
\* path, and popen_uci launches a new subprocess whatever self.maia_engine
\* holds.
init_maia_again(a, p) ==
    \E configured \in PathStates :
        /\ maia_path' = IF configured # "unset" THEN configured ELSE maia_path
        /\ IF MaiaPathExists(configured)
           THEN /\ prev' = [p EXCEPT !["maia"] = a["maia"]]
                /\ alive' = [a EXCEPT !["maia"] = "starting"]
                /\ life' = "popen_maia_again"
           ELSE /\ prev' = p
                /\ alive' = a
                /\ life' = "serving"

\* initialize() called again on a manager that was initialized before, up to
\* its first await (lines 26-56), between two requests.  Nothing in
\* initialize() looks at the handles it holds: popen_uci launches a new
\* subprocess next to the one self.stockfish_engine refers to.
initialize_again ==
    /\ life \in {"serving", "stopped"}
    /\ reinitialized < MaxReinitializations
    /\ \A c \in Callers : pc[c] = "idle"
    /\ reinitialized' = reinitialized + 1
    /\ \E configured \in PathStates, detected \in BOOLEAN :
        /\ stockfish_path' = StockfishPath(configured, detected)
        /\ IF StockfishPathExists(configured, detected)
           THEN /\ prev' = [prev EXCEPT !["stockfish"] = alive["stockfish"]]
                /\ alive' = [alive EXCEPT !["stockfish"] = "starting"]
                /\ life' = "popen_stockfish_again"
                /\ maia_path' = maia_path
           ELSE init_maia_again(alive, prev)
    /\ UNCHANGED <<calc_vars, game_vars, stockfish_engine, maia_engine, quit_sent, orphans, caller_vars, proto_vars, limit>>

\* The assignment of lines 57 / 71 in a later initialize(), for the new
\* subprocess of e whose popen_uci is over: on success the handle is
\* overwritten with the new protocol (no command, no option set, never told
\* to quit) and the subprocess it referred to, if it still runs, is left
\* without any reference; on failure the handle keeps referring to the
\* subprocess it referred to.
Overwritten(e, f) ==
    IF Started(e) THEN [f EXCEPT ![e] = 0] ELSE f
Abandoned(e) ==
    IF Started(e) /\ Runs(prev[e]) THEN [orphans EXCEPT ![e] = @ + 1] ELSE orphans
Referenced(e) ==
    IF Started(e) THEN alive ELSE [alive EXCEPT ![e] = prev[e]]

\* popen_uci of Stockfish returned or raised in a later initialize().
init_stockfish_again_resume ==
    /\ life = "popen_stockfish_again"
    /\ PopenOver("stockfish")
    /\ stockfish_engine' = IF Started("stockfish") THEN "handle" ELSE stockfish_engine
    /\ orphans' = Abandoned("stockfish")
    /\ quit_sent' = Overwritten("stockfish", quit_sent)
    /\ limit' = Overwritten("stockfish", limit)
    /\ IF Started("stockfish")
       THEN /\ command' = [command EXCEPT !["stockfish"] = NoCmd]
            /\ next_command' = [next_command EXCEPT !["stockfish"] = NoCmd]
       ELSE UNCHANGED proto_vars
    /\ init_maia_again(Referenced("stockfish"), [prev EXCEPT !["stockfish"] = "none"])
    /\ UNCHANGED <<calc_vars, game_vars, stockfish_path, maia_engine, reinitialized, caller_vars>>

\* popen_uci of Maia returned or raised in a later initialize(), which returns.
init_maia_again_resume ==
    /\ life = "popen_maia_again"
    /\ PopenOver("maia")
    /\ maia_engine' = IF Started("maia") THEN "handle" ELSE maia_engine
    /\ orphans' = Abandoned("maia")
    /\ quit_sent' = Overwritten("maia", quit_sent)
    /\ limit' = Overwritten("maia", limit)
    /\ IF Started("maia")
       THEN /\ command' = [command EXCEPT !["maia"] = NoCmd]
            /\ next_command' = [next_command EXCEPT !["maia"] = NoCmd]
       ELSE UNCHANGED proto_vars
    /\ alive' = Referenced("maia")
    /\ prev' = [prev EXCEPT !["maia"] = "none"]
    /\ life' = "serving"
    /\ UNCHANGED <<calc_vars, game_vars, path_vars, stockfish_engine, reinitialized, caller_vars>>

\* A subprocess that no handle refers to exits on its own (it crashes);
\* nothing else ends it, as nobody can tell it to quit.
OrphanExit(e) ==
    /\ orphans[e] > 0
    /\ orphans' = [orphans EXCEPT ![e] = @ - 1]
    /\ UNCHANGED <<calc_vars, game_vars, life, path_vars, stockfish_engine, maia_engine, quit_sent,
                   prev, reinitialized, alive, caller_vars, proto_vars, limit>>

\* The manager over its whole life: initialize(), requests of one client,
\* shutdown(), and initialize() called again.
LifeNext ==
    \/ initialize
    \/ init_stockfish_resume
    \/ init_maia_resume
    \/ initialize_again
    \/ init_stockfish_again_resume
    \/ init_maia_again_resume
    \/ shutdown
    \/ shutdown_resume_stockfish
    \/ shutdown_resume_maia
    \/ \E e \in Engines : EngineHandshake(e)
    \/ \E e \in Engines : EngineAnswer(e)
    \/ \E e \in Engines : EngineExit(e)
    \/ \E e \in Engines : EngineHang(e)
    \/ \E e \in Engines : OrphanExit(e)
    \/ analyze_position(1)
    \/ analyze_position_resume(1)
    \/ Return(1)

LifeSpec == Init /\ [][LifeNext]_vars

\* ------------------------------------------------------------ the analysis API
\* The texts a client may send as "fen": the FEN of its position, or a text
\* chess.Board rejects.
FenText(position) == <<"fen", position>>
BadFen == <<"not a fen">>
FenTexts(c) == {FenText(RequestFen(c)), BadFen}

\* The texts a client may send as "move": the UCI text of its legal move, of
\* a move that is not legal on its board, of the null move ("0000"), or a
\* text that is no UCI move.
BadMove == <<"not a move">>
MoveTexts == {Uci(m) : m \in Moves \cup {"illegal", "null"}} \cup {BadMove}

\* chess.Board(fen) and chess.Move.from_uci(text): whether they return, and
\* what (they raise ValueError otherwise).
ParsesAsFen(text) == text # BadFen
ParsesAsMove(text) == text # BadMove
ParseFen(text) == text[2]
FromUci(text) == text[2]

\* board.legal_moves of a board nothing was pushed on.
LegalMoves(b) == IF b.move_stack = <<>> THEN Moves ELSE {}

\* ValidRequest without the test of lines 48-49.
ValidRequest_any_move(fen, move) == ParsesAsFen(fen) /\ ParsesAsMove(move)

\* Whether evaluate_move passes lines 42-49: both texts parse and the move
\* is legal on the board.
ValidRequest(fen, move) ==
    /\ ParsesAsFen(fen)
    /\ ParsesAsMove(move)
    /\ FromUci(move) \in LegalMoves(Board(ParseFen(fen)))

\* POST /evaluate-move (analysis.py:39-59) up to the first await of the
\* manager: a request that does not pass lines 42-49 is answered with 400,
\* else evaluate_move_quality is called with the board and the move parsed.
evaluate_move(c) ==
    /\ Serving
    /\ pc[c] = "idle"
    /\ \E fen \in FenTexts(c), move \in MoveTexts, depth \in EvaluationDepths :
        IF ValidRequest(fen, move)
        THEN evaluate_move_quality_of(c, ParseFen(fen), FromUci(move), depth)
        ELSE /\ op' = [op EXCEPT ![c] = [NoOp EXCEPT !.kind = "evaluate_move",
                                                     !.request = <<fen, move>>]]
             /\ board' = IF ParsesAsFen(fen)
                         THEN [board EXCEPT ![c] = Board(ParseFen(fen))]
                         ELSE board
             /\ Finish(c, "400")
             /\ UNCHANGED <<calc_vars, game_vars, mgr_vars, alive, limit, eng, res, before_analysis,
                            evaluation, searches>>

\* The application serving evaluation requests of its clients.
ApiNext ==
    \/ initialize
    \/ init_stockfish_resume
    \/ init_maia_resume
    \/ \E e \in Engines : EngineHandshake(e)
    \/ \E e \in Engines : EngineAnswer(e)
    \/ \E e \in Engines : EngineExit(e)
    \/ \E e \in Engines : EngineHang(e)
    \/ \E c \in Callers : evaluate_move(c)
    \/ \E c \in Callers : evaluate_move_quality_pushed(c)
    \/ \E c \in Callers : evaluate_move_quality_resume(c)
    \/ \E c \in Callers : Return(c)

ApiSpec == Init /\ [][ApiNext]_vars

\* ------------------------------------------------------------ the game API
\* The chess.Move objects a game request may carry, by what they do to the
\* position: a knight move out or back (four of them in a row, two by each
\* side, restore the position), a pawn move (the position is new for good),
\* castling written as the king's two-square move ("e1g1") or as king takes
\* rook ("e1h1"), a move that mates, and the null move ("0000"), which is never
\* legal.
GameMoves == {"knight", "pawn", "castle", "castle_kxr", "mate", "null"}
GameMoveTexts == {Uci(m) : m \in GameMoves} \cup {BadMove}

\* The move the board keeps for a move handed to push() or is_legal(): castling
\* in king-takes-rook notation is the king's two-square move on a standard
\* board (python-chess: Board._from_chess960).
Normalized(move) == IF move = "castle_kxr" THEN "castle" ELSE move

\* chess.Board(): a fresh board on the starting position.
StartingBoard == Board("startpos")

\* How many moves of one kind are on the board.
Made(b, kind) == Cardinality({i \in 1..Len(b.move_stack) : b.move_stack[i] = kind})
\* The moves made in all the stored games.
RECURSIVE MovesMade(_)
MovesMade(ids) ==
    IF ids = {} THEN 0
    ELSE LET g == CHOOSE x \in ids : TRUE
         IN  (IF active_games[g] = NoGame THEN 0 ELSE Len(active_games[g].board.move_stack))
             + MovesMade(ids \ {g})

\* How many times the present position has occurred: once, and once more for
\* every four knight moves in a row that lead back to it.
Occurrences(b) ==
    LET n == Len(b.move_stack)
        others == {i \in 1..n : b.move_stack[i] # "knight"}
        last == IF others = {} THEN 0 ELSE CHOOSE i \in others : \A j \in others : j <= i
    IN  (n - last) \div 4 + 1

\* board.is_game_over(): checkmate, or a draw that ends the game without a
\* claim (here fivefold repetition), judged on the present position.
is_checkmate(b) == b.move_stack # <<>> /\ b.move_stack[Len(b.move_stack)] = "mate"
is_fivefold_repetition(b) == Occurrences(b) >= 5
is_game_over(b) == is_checkmate(b) \/ is_fivefold_repetition(b)

\* board.result(): the side that mated wins, a repetition is a draw.
result(b) ==
    IF is_checkmate(b) THEN (IF Len(b.move_stack) % 2 = 1 THEN "1-0" ELSE "0-1")
    ELSE IF is_fivefold_repetition(b) THEN "1/2-1/2"
    ELSE "*"

\* board.legal_moves: none in a checkmate; no mate before the fourth move of
\* a game; castling once, not before the seventh move nor before a pawn has
\* made way.  (Beyond that, which positions offer a mate or castling is not
\* followed: every position offers them.)
legal_moves(b) ==
    IF is_checkmate(b) THEN {}
    ELSE {"knight", "pawn"}
         \cup (IF Len(b.move_stack) >= 3 THEN {"mate"} ELSE {})
         \cup (IF Len(b.move_stack) >= 6 /\ Made(b, "pawn") > 0 /\ Made(b, "castle") = 0
               THEN {"castle"} ELSE {})

\* move in board.legal_moves (line 70).
IsLegal(b, move) == Normalized(move) \in legal_moves(b)

\* board.push(move).
GamePush(b, move) == Push(b, Normalized(move))

\* The responses of the game API.
HttpError(request, game_id, status, detail) ==
    [request |-> request, game_id |-> game_id, status |-> status, detail |-> detail]
GameState(game) ==
    [request |-> "get_game", game_id |-> game.game_id, status |-> 200,
     fen |-> Fen(game.board), moves |-> game.moves,
     is_game_over |-> game.is_game_over, result |-> game.result]
MoveResponse(game, text) ==
    [request |-> "make_move", game_id |-> game.game_id, status |-> 200, move |-> text,
     fen |-> Fen(game.board), is_game_over |-> is_game_over(game.board),
     result |-> IF is_game_over(game.board) THEN <<result(game.board)>> ELSE None]

GameOthersUnchanged ==
    UNCHANGED <<calc_vars, mgr_vars, alive, limit, proto_vars, caller_vars>>

\* The moves the clients are let make: MaxGameMoves in all, MaxPawnMoves pawn
\* moves in a game.
WithinBounds(game, move) ==
    /\ MovesMade(GameIds) < MaxGameMoves
    /\ move = "pawn" => Made(game.board, "pawn") < MaxPawnMoves

\* POST /start (lines 22-55): a new game under a new id.
start_game ==
    /\ issued < MaxGames
    /\ Cardinality({g \in GameIds : active_games[g] # NoGame}) < MaxStoredGames
    /\ LET game_id == issued + 1
           game_data == [game_id |-> game_id, board |-> StartingBoard, moves |-> <<>>,
                         is_game_over |-> FALSE, result |-> None]
       IN  /\ issued' = game_id
           /\ active_games' = [active_games EXCEPT ![game_id] = game_data]
           /\ response' = [GameState(game_data) EXCEPT !.request = "start_game"]
    /\ GameOthersUnchanged

\* POST /move (lines 58-104).  The handler has no await: it runs as one step.
make_move(game_id, text) ==
    LET game == active_games[game_id]
        made == [game EXCEPT !.board = GamePush(@, FromUci(text)),
                             !.moves = Append(@, text)]
        over == [made EXCEPT !.is_game_over = TRUE, !.result = <<result(made.board)>>]
    IN  /\ IF game = NoGame
           THEN /\ response' = HttpError("make_move", game_id, 404, "Game not found")
                /\ active_games' = active_games
           ELSE IF text = BadMove
           THEN /\ response' = HttpError("make_move", game_id, 400, "Invalid move format")
                /\ active_games' = active_games
           ELSE IF ~IsLegal(game.board, FromUci(text))
           THEN /\ response' = HttpError("make_move", game_id, 400, "Illegal move")
                /\ active_games' = active_games
           ELSE /\ WithinBounds(game, FromUci(text))
                /\ active_games' = [active_games EXCEPT ![game_id] =
                                       IF is_game_over(made.board) THEN over ELSE made]
                /\ response' = MoveResponse(made, text)
        /\ UNCHANGED issued
        /\ GameOthersUnchanged

\* GET /{game_id} (lines 107-126).
get_game(game_id) ==
    /\ response' = IF active_games[game_id] = NoGame
                   THEN HttpError("get_game", game_id, 404, "Game not found")
                   ELSE GameState(active_games[game_id])
    /\ UNCHANGED <<active_games, issued>>
    /\ GameOthersUnchanged

\* DELETE /{game_id} (lines 129-136).
delete_game(game_id) ==
    /\ IF active_games[game_id] = NoGame
       THEN /\ response' = HttpError("delete_game", game_id, 404, "Game not found")
            /\ active_games' = active_games
       ELSE /\ response' = [request |-> "delete_game", game_id |-> game_id, status |-> 200]
            /\ active_games' = [active_games EXCEPT ![game_id] = NoGame]
    /\ UNCHANGED issued
    /\ GameOthersUnchanged

\* The game API serving its requests in any order.
GameNext ==
    \/ start_game
    \/ \E game_id \in GameIds, text \in GameMoveTexts : make_move(game_id, text)
    \/ \E game_id \in GameIds : get_game(game_id)
    \/ \E game_id \in GameIds : delete_game(game_id)

GameSpec == Init /\ [][GameNext]_vars

\* ------------------------------------------------------------ claims
\* The board a request was given: a fresh board on the request's position.
OriginalBoard(c) == Board(RequestFen(c))

\* Caller d hands a command to engine e in this step.
IssuesOn(d, e) == pc'[d] # pc[d] /\ pc'[d] \in WaitPcs /\ eng'[d] = e

\* C1: in every reachable state each engine adapter has at most one request
\* in flight (handed to the adapter and not finished by it).
C1_AtMostOneInFlight ==
    \A e \in Engines : Cardinality(InFlight(e)) <= 1

\* C2: when two analyze_position calls for distinct positions run against
\* the same live adapter, each call that has ended returned the complete
\* analysis of its own position (not cancelled, not cut short, not the
\* other's).
C2_EachCallerGetsItsAnalysis ==
    \A c, d \in Callers :
        ( /\ c # d
          /\ op[c].kind = "analyze" /\ op[d].kind = "analyze"
          /\ eng[c] \in Engines /\ eng[d] = eng[c]
          /\ alive[eng[c]] = "running"
          /\ pc[c] = "done" )
        => /\ outcome[c] = "ok"
           /\ res[c] = [position |-> Fen(OriginalBoard(c)), full |-> TRUE]

\* C3: while an evaluate_move_quality call is between the start of its
\* pre-move analysis and the end of its post-move analysis, no other caller
\* hands a request to the Stockfish adapter.
C3_EvaluateIsAtomicSection ==
    [][\A c, d \in Callers :
          ( /\ c # d
            /\ pc[c] \in {"before_wait", "after_wait"}
            /\ pc'[c] \in {"before_wait", "after_wait"} )
          => ~IssuesOn(d, "stockfish")]_vars

\* C4: a request without ELO target that runs on Stockfish runs with the
\* strength limit off, whatever was served before.
C4_UntargetedRunsAtFullStrength ==
    \A c \in Callers :
        ( /\ Awaited(command["stockfish"])
          /\ command["stockfish"].caller = c
          /\ op[c].elo = NoElo )
        => limit["stockfish"] = NoElo

\* C5: when evaluate_move_quality ends with an error after its pre-move
\* analysis succeeded (the post-move analysis failed), the caller's board
\* equals its value before the call.
C5_BoardRolledBackOnFailure ==
    \A c \in Callers :
        ( /\ pc[c] = "done"
          /\ op[c].kind = "evaluate"
          /\ before_analysis[c] # NoRes
          /\ outcome[c] # "ok" )
        => board[c] = OriginalBoard(c)

\* C6: when evaluate_move_quality returns normally, or fails before the move
\* is applied (no Stockfish, or the pre-move analysis fails), the caller's
\* board equals its value before the call.
C6_BoardRestoredOnReturn ==
    \A c \in Callers :
        ( /\ pc[c] = "done"
          /\ op[c].kind = "evaluate"
          /\ (outcome[c] = "ok" \/ before_analysis[c] = NoRes) )
        => board[c] = OriginalBoard(c)

\* A call of evaluate_move_quality has run both analyses and returned.
C6_Witness ==
    \E c \in Callers :
        /\ pc[c] = "done"
        /\ op[c].kind = "evaluate"
        /\ outcome[c] = "ok"
        /\ before_analysis[c] # NoRes
        /\ board[c] = OriginalBoard(c)

\* C7: once an analyze_position call on Stockfish has failed because the
\* subprocess terminated during the call, stockfish_available() and
\* is_ready() are false.
C7_CrashMarksEngineUnavailable ==
    \A c \in Callers :
        ( /\ pc[c] = "done"
          /\ op[c].kind = "analyze"
          /\ eng[c] = "stockfish"
          /\ fut[c] = "terminated" )
        => (~stockfish_available /\ ~is_ready)

\* C8: every engine call is bounded: an awaited search or configure, a
\* startup handshake and a quit each end eventually, also when the engine
\* never answers.
C8_EveryEngineCallEnds ==
    /\ \A c \in Callers : (fut[c] = "pending") ~> (fut[c] # "pending")
    /\ \A l \in {"popen_stockfish", "popen_maia", "quit_stockfish", "quit_maia"} :
          (life = l) ~> (life # l)

\* C9: shutdown() always terminates: once called it returns (or raises),
\* even if the quit of an adapter never completes.
C9_ShutdownTerminates ==
    (life \in {"quit_stockfish", "quit_maia"})
        ~> (life \in {"stopped", "raised_99", "raised_103"})

\* C10: a failing stop of Stockfish does not make shutdown() raise, and once
\* the Stockfish part of shutdown() is over the Maia adapter, if the manager
\* holds one, has been told to quit.
C10_ShutdownToleratesDeadAdapter ==
    /\ life # "raised_99"
    /\ ( /\ quit_sent["stockfish"] > 0
         /\ life \notin {"serving", "quit_stockfish"}
         /\ maia_engine # "None" )
       => quit_sent["maia"] > 0

\* C11: shutdown() is idempotent: once a shutdown() has completed, a further
\* shutdown() sends no quit to any engine, changes no state of the manager
\* and raises no error.
C11_SecondShutdownIsNoOp ==
    [][life = "stopped"
         => /\ quit_sent' = quit_sent
            /\ life' = "stopped"
            /\ <<path_vars, stockfish_engine, maia_engine>>' =
                   <<path_vars, stockfish_engine, maia_engine>>]_vars

\* The adapter of engine e is live: the manager holds its handle and its
\* subprocess has not exited.
Live(e) == Handle(e) # "None" /\ alive[e] # "exited"

\* Caller c enters the manager method `kind` in this step.
Calls(c, kind) == pc[c] = "idle" /\ pc'[c] # "idle" /\ op'[c].kind = kind

\* C12: analyze_position and get_best_move use the Maia adapter if and only
\* if use_maia is true and the Maia adapter is live, else the Stockfish
\* adapter; with neither adapter live the call fails with the
\* no-engine-available error.
C12_AdapterSelection ==
    [][\A c \in Callers :
          (Calls(c, "analyze") \/ Calls(c, "best_move"))
          => /\ (eng'[c] = "maia") <=> (op'[c].use_maia /\ Live("maia"))
             /\ (eng'[c] # "maia" /\ Live("stockfish")) => eng'[c] = "stockfish"
             /\ (~Live("maia") /\ ~Live("stockfish"))
                   => (pc'[c] = "done" /\ outcome'[c] = "no_engine")]_vars

\* C13: initialize() with both engine binaries absent (no path configured,
\* nothing auto-detected) returns without raising, having launched nothing,
\* and is_ready(), stockfish_available() and maia_available() are false.
C13_InitializeWithoutBinaries ==
    (life # "new" /\ stockfish_path = "None" /\ maia_path = "None")
    => /\ Serving
       /\ ~is_ready /\ ~stockfish_available /\ ~maia_available
       /\ \A e \in Engines : alive[e] = "none"

\* initialize() has returned where no binary was configured or detected.
C13_Witness ==
    /\ life = "serving"
    /\ stockfish_path = "None" /\ maia_path = "None"
    /\ ~is_ready /\ ~maia_available

IssuesPlay(c) == pc[c] # "play_wait" /\ pc'[c] = "play_wait"

Other(e) == IF e = "stockfish" THEN "maia" ELSE "stockfish"

\* C21: requests on different adapters do not block each other: whatever is
\* in flight on the other adapter, a request selected for a live adapter
\* can be handed to it at once, the engine can answer the request it runs,
\* and the caller can go on with the answer; none of these steps touches
\* the other adapter or the calls waiting on it.
C21_DifferentAdaptersDoNotBlock ==
    \A c \in Callers, e \in Engines :
        LET OtherUntouched ==
                /\ command'[Other(e)] = command[Other(e)]
                /\ next_command'[Other(e)] = next_command[Other(e)]
                /\ \A d \in InFlight(Other(e)) \ {c} : fut'[d] = fut[d] /\ pc'[d] = pc[d]
        IN  /\ (Serving /\ pc[c] = "idle" /\ Live(e))
                  => ENABLED ( /\ analyze_position(c)
                               /\ eng'[c] = e
                               /\ pc'[c] = "analyse_wait"
                               /\ OtherUntouched )
            /\ (command[e].caller = c /\ alive[e] = "running")
                  => ENABLED (EngineAnswer(e) /\ OtherUntouched)
            /\ (pc[c] = "analyse_wait" /\ eng[c] = e /\ fut[c] # "pending")
                  => ENABLED (analyze_position_resume(c) /\ OtherUntouched)

\* An analysis that was handed to Maia while a request was in flight on
\* Stockfish has completed, and the request on Stockfish is still in flight.
C21_Witness ==
    \E c, d \in Callers :
        /\ c # d
        /\ eng[c] = "maia" /\ op[c].kind = "analyze"
        /\ pc[c] = "done" /\ outcome[c] = "ok" /\ res[c].full
        /\ eng[d] = "stockfish" /\ command["stockfish"].caller = d
        /\ fut[d] = "pending" /\ ~command["stockfish"].stopping

\* The call of caller c ends in this step with an error that is not the
\* exit of the engine subprocess and not the absence of an engine.
FailsWithLiveEngine(c) ==
    /\ pc[c] \in WaitPcs /\ pc'[c] = "done"
    /\ outcome'[c] \notin {"ok", "terminated"}

\* C22: a request that fails for a reason other than the exit of the engine
\* subprocess leaves the adapter as it was: handles (hence the availability
\* probes), subprocesses, protocols and options are unchanged by the
\* failure, so that a later request on the adapter is served as before.
C22_FailureLeavesAdapterLive ==
    [][\A c \in Callers :
          FailsWithLiveEngine(c)
          => /\ stockfish_engine' = stockfish_engine
             /\ maia_engine' = maia_engine
             /\ alive' = alive
             /\ command' = command /\ next_command' = next_command
             /\ limit' = limit]_vars

\* A best-move call was cancelled on a running engine, and a request handed
\* to the same adapter no earlier than that has been served in full.
C22_Witness ==
    \E c, d \in Callers :
        /\ c # d
        /\ pc[c] = "done" /\ outcome[c] = "cancelled"
        /\ eng[d] = eng[c] /\ alive[eng[c]] = "running"
        /\ stockfish_available
        /\ pc[d] = "done" /\ outcome[d] = "ok" /\ op[d].kind = "analyze" /\ res[d].full

\* C23 as stated: every analyze_position call issues exactly one engine
\* search, every get_best_move call exactly one, every
\* evaluate_move_quality call at most two.
C23_ExactlyOneSearchPerCall ==
    \A c \in Callers :
        pc[c] = "done"
        => /\ op[c].kind \in {"analyze", "best_move"} => searches[c] = 1
           /\ op[c].kind = "evaluate" => searches[c] <= 2

\* C23, amended: the manager never retries.  An analyze_position or
\* get_best_move call makes at most one engine search call, exactly one
\* when it returns normally and none when no engine is available;
\* evaluate_move_quality makes at most two, exactly two when it returns
\* normally; and after a failed engine call no further one is made for the
\* request (a failed pre-move analysis is not followed by a second search).
C23_NoRetries ==
    \A c \in Callers :
        /\ searches[c] <= 2
        /\ pc[c] = "done"
           => /\ op[c].kind \in {"analyze", "best_move"}
                 => /\ searches[c] <= 1
                    /\ outcome[c] = "ok" => searches[c] = 1
                    /\ outcome[c] = "no_engine" => searches[c] = 0
              /\ op[c].kind = "analyze" /\ outcome[c] # "no_engine" => searches[c] = 1
              /\ op[c].kind = "evaluate"
                 => /\ outcome[c] = "ok" => searches[c] = 2
                    /\ outcome[c] = "stockfish_required" => searches[c] = 0
                    /\ (outcome[c] # "ok" /\ before_analysis[c] = NoRes) => searches[c] <= 1

\* An analysis failed after its one search, and an evaluation failed at its
\* first analysis without a second one.
C23_Witness ==
    \E c, d \in Callers :
        /\ pc[c] = "done" /\ op[c].kind = "analyze"
        /\ outcome[c] = "terminated" /\ searches[c] = 1
        /\ pc[d] = "done" /\ op[d].kind = "evaluate"
        /\ outcome[d] = "terminated" /\ searches[d] = 1

\* C27: a search of get_best_move that was called with an ELO target runs
\* while Stockfish is configured with that call's own target: the command the
\* subprocess executes is never the play() of a call whose target differs
\* from the configured limit.
C27_SearchRunsUnderOwnTarget ==
    LET run == command["stockfish"]
    IN  (/\ run.kind = "play"
         /\ ~run.stopping
         /\ op[run.caller].elo # NoElo) => limit["stockfish"] = op[run.caller].elo

\* C28: once shutdown() has returned, no subprocess the manager launched
\* runs any more: neither one a handle refers to nor one that a later
\* initialize() left without a reference.
C28_NoSubprocessAfterShutdown ==
    life = "stopped" =>
        \A e \in Engines : ~Runs(alive[e]) /\ ~Runs(prev[e]) /\ orphans[e] = 0

\* A step in which a subprocess is launched or an engine handle is assigned.
Launches ==
    \/ \E e \in Engines : alive'[e] = "starting" /\ alive[e] # "starting"
    \/ stockfish_engine' # stockfish_engine
    \/ maia_engine' # maia_engine

\* C29: a subprocess is launched and a handle is assigned only by
\* initialize(), before the application serves: no step of a request
\* (analyze_position, get_best_move, evaluate_move_quality) does either, and
\* no step of a request runs while initialize() does.
C29_OnlyInitializeLaunches ==
    [][Launches => /\ life \in {"new", "popen_stockfish", "popen_maia"}
                   /\ pc' = pc
                   /\ \A c \in Callers : pc[c] = "idle"]_vars

\* C29 witness: a request that found no engine has ended, and no subprocess
\* was launched for it.
C29_Witness ==
    \E c \in Callers :
        /\ pc[c] = "done"
        /\ outcome[c] = "no_engine"
        /\ stockfish_engine = "None"
        /\ alive["stockfish"] \in {"none", "failed"}

\* The command that caller c waits for on the protocol of engine e after
\* this step (NoCmd if it has none; a stopped play() that c no longer waits
\* for may still run).
IssuedCmd(c, e) ==
    IF next_command'[e].caller = c THEN next_command'[e]
    ELSE IF command'[e].caller = c /\ Awaited(command'[e]) THEN command'[e]
    ELSE NoCmd

\* The analysis of `position` with one line at the depth of c's request, as
\* a command on Stockfish.
IssuesAnalysisOf(c, position) ==
    /\ eng'[c] = "stockfish"
    /\ IssuedCmd(c, "stockfish") = AnalyseCmd(c, position, op'[c].depth, 1)
    /\ IssuedCmd(c, "maia") = NoCmd

\* C30: evaluate_move_quality asks Stockfish for the analysis of the board
\* before the move, with one line at the depth of the request; it asks for
\* the analysis of the board after the move, again with one line at that
\* depth on Stockfish, only once the first analysis has returned; and the
\* dict it returns has the move of the first line of the first analysis as
\* best_move and the values of the first lines of the first and the second
\* analysis as before_score and after_score.
C30_TwoAnalysesInOrder ==
    [][\A c \in Callers :
          LET before == OriginalBoard(c)
              after == Push(OriginalBoard(c), op[c].move)
          IN  /\ (Calls(c, "evaluate") /\ pc'[c] = "before_wait")
                    => IssuesAnalysisOf(c, before)
              /\ (op[c].kind = "evaluate" /\ pc[c] # "after_wait" /\ pc'[c] = "after_wait")
                    => /\ pc[c] = "before_wait"
                       /\ fut[c] \in {"ok", "stopped"}
                       /\ res[c].position = Fen(before)
                       /\ before_analysis'[c] = res[c]
                       /\ IssuesAnalysisOf(c, after)
              /\ (op[c].kind = "evaluate" /\ pc[c] # "done" /\ pc'[c] = "done" /\ outcome'[c] = "ok")
                    => /\ pc[c] = "after_wait"
                       /\ before_analysis[c].position = Fen(before)
                       /\ res[c].position = Fen(after)
                       /\ evaluation'[c].best_move = LineMove(FirstLine(before_analysis[c]))
                       /\ evaluation'[c].before_score = LineValue(FirstLine(before_analysis[c]))
                       /\ evaluation'[c].after_score = LineValue(FirstLine(res[c]))]_vars

\* C30 witness: an evaluation at depth 10 has returned its dict.
C30_Witness ==
    \E c \in Callers :
        /\ pc[c] = "done"
        /\ op[c].kind = "evaluate"
        /\ op[c].depth = 10
        /\ outcome[c] = "ok"
        /\ evaluation[c] # NoEvaluation

\* The protocols of both engines are left as they are: nothing is sent.
NothingSent == command' = command /\ next_command' = next_command

\* C32: once shutdown() has returned, the three probes are false, and every
\* call of analyze_position, get_best_move or evaluate_move_quality made
\* from then on fails at once with the no-engine error, nothing being sent
\* to an engine.
C32_StoppedManagerHasNoEngine ==
    [][life = "stopped" =>
          /\ ~is_ready /\ ~stockfish_available /\ ~maia_available
          /\ \A c \in Callers :
                (Calls(c, "analyze") \/ Calls(c, "best_move") \/ Calls(c, "evaluate"))
                => /\ pc'[c] = "done"
                   /\ outcome'[c] \in {"no_engine", "stockfish_required"}
                   /\ NothingSent]_vars

\* C33: with Stockfish not live and Maia live, a call of analyze_position
\* or get_best_move with use_maia false fails with the no-engine error and
\* sends nothing to Maia.
C33_MaiaIsNoFallback ==
    [][\A c \in Callers :
          (/\ Calls(c, "analyze") \/ Calls(c, "best_move")
           /\ ~op'[c].use_maia
           /\ ~Live("stockfish")
           /\ Live("maia"))
          => /\ pc'[c] = "done"
             /\ outcome'[c] = "no_engine"
             /\ command'["maia"] = command["maia"]
             /\ next_command'["maia"] = next_command["maia"]]_vars

C35_OnlyValidInputReachesTheManager ==
    [][\A c \in Callers :
          (pc[c] = "idle" /\ pc'[c] # "idle")
          => \/ /\ Calls(c, "evaluate")
                /\ board'[c] = Board(RequestFen(c))
                /\ op'[c].move \in LegalMoves(board'[c])
                /\ \A d \in Callers \ {c} : board'[d] # board'[c]
             \/ /\ Calls(c, "evaluate_move")
                /\ pc'[c] = "done"
                /\ outcome'[c] = "400"
                /\ ~ValidRequest(op'[c].request[1], op'[c].request[2])
                /\ eng'[c] = "none"
                /\ searches'[c] = 0
                /\ NothingSent]_vars

\* C35 witness: a request with a good FEN and an illegal move was answered
\* with 400 while the other client's evaluation runs.
C35_Witness ==
    \E c, d \in Callers :
        /\ pc[c] = "done"
        /\ outcome[c] = "400"
        /\ op[c].request = <<FenText(RequestFen(c)), Uci("illegal")>>
        /\ pc[d] = "after_wait"

\* A make_move request on game g was answered in this step.
Answered(g) == response'.request = "make_move" /\ response'.game_id = g

\* C37: after any requests, every stored game's recorded move list is, move
\* for move, the moves on its board, and a make_move request that is rejected
\* (unknown game, malformed move, illegal move) changes no game.
C37_MovesAreTheBoardsMoves ==
    [][\A g \in GameIds :
          /\ active_games'[g] # NoGame =>
                 LET made == active_games'[g].board.move_stack
                 IN  active_games'[g].moves = [i \in 1..Len(made) |-> Uci(made[i])]
          /\ (Answered(g) /\ response'.status # 200) => active_games' = active_games]_vars

\* C38: a game's is_game_over flag is true exactly when its position is a
\* finished game; once true it stays true and the result stays what it was;
\* and every later make_move request on the game is rejected and leaves the
\* game as it was.
C38_FinishedGameStaysFinished ==
    [][\A g \in GameIds :
          /\ active_games'[g] # NoGame =>
                 (active_games'[g].is_game_over <=> is_game_over(active_games'[g].board))
          /\ (active_games[g] # NoGame /\ active_games[g].is_game_over) =>
                 /\ active_games'[g] # NoGame =>
                        /\ active_games'[g].is_game_over
                        /\ active_games'[g].result = active_games[g].result
                 /\ Answered(g) =>
                        /\ response'.status = 400
                        /\ active_games'[g] = active_games[g]]_vars

\* ------------------------------------------------------------ pure methods
\* _format_score, _classify_move and the score arithmetic of
\* evaluate_move_quality compute on their arguments alone.  CalcSpec calls
\* each of them once on every argument of a bounded set.

\* Centipawn scores are the multiples of CpStep up to MaxCpSteps steps either
\* way, mate scores the mates in 1..MaxMate moves for either side, score
\* differences the integers up to MaxDelta either way.
CpStep == 50
MaxCpSteps == 8
MaxMate == 3
MaxDelta == 350

\* chess.WHITE and chess.BLACK.
WHITE == TRUE
BLACK == FALSE

\* item.get("score"): None, or a PovScore, given by its `relative` part (the
\* score for the side to move): Cp(n) or Mate(n).
NoScore == [kind |-> "none", n |-> 0]
Cp(n) == [kind |-> "cp", n |-> n]
Mate(n) == [kind |-> "mate", n |-> n]
CpScores == {Cp(k * CpStep) : k \in -MaxCpSteps..MaxCpSteps}
MateScores == {Mate(n) : n \in (-MaxMate..MaxMate) \ {0}}
Scores == CpScores \cup MateScores \cup {NoScore}

Abs(n) == IF n < 0 THEN -n ELSE n

\* f"{cp/100:.2f}": sign, whole pawns and two decimals.
Display(cp) ==
    [negative |-> cp < 0, units |-> Abs(cp) \div 100, hundredths |-> Abs(cp) % 100]

\* _format_score without the test of lines 212-213: score.is_mate() on None
\* raises AttributeError.
format_score_no_test(score) ==
    IF score = NoScore
    THEN [type |-> "raised", value |-> 0]
    ELSE IF score.kind = "mate"
    THEN [type |-> "mate", value |-> score.n, display |-> <<"M", score.n>>]
    ELSE [type |-> "cp", value |-> score.n, display |-> Display(score.n)]

\* _format_score with score.relative.score(mate_score=10000) for every score:
\* a mate is folded into centipawns and tagged "cp".
format_score_folds_mate(score) ==
    IF score = NoScore
    THEN [type |-> "unknown", value |-> 0]
    ELSE LET cp == IF score.kind = "mate"
                   THEN (IF score.n > 0 THEN 10000 - score.n ELSE -10000 - score.n)
                   ELSE score.n
         IN  [type |-> "cp", value |-> cp, display |-> Display(cp)]

\* _format_score (lines 210-227).
format_score(score) ==
    IF score = NoScore
    THEN [type |-> "unknown", value |-> 0]
    ELSE IF score.kind = "mate"
    THEN [type |-> "mate", value |-> score.n, display |-> <<"M", score.n>>]
    ELSE [type |-> "cp", value |-> score.n, display |-> Display(score.n)]

\* _classify_move with the bounds of each band excluded (< for <=, > for >=).
classify_move_strict(score_diff) ==
    IF score_diff < -300 THEN "blunder"
    ELSE IF score_diff < -100 THEN "mistake"
    ELSE IF score_diff < -50 THEN "inaccuracy"
    ELSE IF score_diff > 100 THEN "brilliant"
    ELSE IF score_diff > 0 THEN "good"
    ELSE "ok"

\* _classify_move (lines 278-291).
classify_move(score_diff) ==
    IF score_diff <= -300 THEN "blunder"
    ELSE IF score_diff <= -100 THEN "mistake"
    ELSE IF score_diff <= -50 THEN "inaccuracy"
    ELSE IF score_diff >= 100 THEN "brilliant"
    ELSE IF score_diff >= 0 THEN "good"
    ELSE "ok"

\* evaluate_move_quality, line 264; turn is board.turn of the board the move
\* was popped from, the side that made the move.
score_diff(before_score, after_score, turn) ==
    IF turn = WHITE THEN before_score - after_score ELSE after_score - before_score

\* evaluate_move_quality from the two analyses on (lines 251, 258, 264-276):
\* before and after are the scores of the first line of each analysis.
evaluate_scores(before, after, turn) ==
    LET before_score == format_score(before).value
        after_score == format_score(after).value
        diff == score_diff(before_score, after_score, turn)
    IN  [classification |-> classify_move(diff),
         score_difference |-> diff,
         before_score |-> before_score,
         after_score |-> after_score]

\* ---- engine location (lines 46-61 and 77-94)
\* common_paths[1:]: the absolute install locations, in the order of the list.
NumLocations == 4

\* What _find_stockfish can see: whether an executable named stockfish is on
\* PATH, whether the working directory holds a file named stockfish, and for
\* each install location whether it is absent, a file that may not be
\* executed, or an executable.
FileStates == {"absent", "file", "executable"}
FileSystems ==
    [on_path : BOOLEAN, in_cwd : BOOLEAN, at : [1..NumLocations -> FileStates]]

NoPath == [kind |-> "None", index |-> 0]

\* shutil.which(path_str) or path_str, then Path(path).exists(), for the
\* entry "stockfish": the executable found on PATH, else the relative path
\* "stockfish" if such a file exists in the working directory.
\* For an absolute entry shutil.which gives the path back if it is an
\* executable and None otherwise, and `or path_str` restores it: the entry is
\* returned whenever the file exists.
RECURSIVE find_from(_, _)
find_from(fs, i) ==
    IF i > NumLocations THEN NoPath
    ELSE IF fs.at[i] # "absent" THEN [kind |-> "location", index |-> i]
    ELSE find_from(fs, i + 1)

\* _find_stockfish (lines 77-94).
find_stockfish(fs) ==
    IF fs.on_path THEN [kind |-> "PATH", index |-> 0]
    ELSE IF fs.in_cwd THEN [kind |-> "cwd", index |-> 0]
    ELSE find_from(fs, 1)

\* _init_stockfish up to its await (lines 48-61): the path it resolves,
\* whether auto-detection ran, whether popen_uci is called, what is logged
\* and what is raised.
init_stockfish_path(configured, fs) ==
    LET detected == find_stockfish(fs) # NoPath
    IN  [path |-> StockfishPath(configured, detected),
         detection |-> configured = "unset",
         popen |-> StockfishPathExists(configured, detected),
         logged |-> IF StockfishPathExists(configured, detected)
                    THEN "none" ELSE "warning: Stockfish not found",
         raised |-> "none"]

\* ---- the result list of analyze_position (lines 149-162)
\* How many lines a request may ask for, and how long a principal variation
\* the engine may report.
MaxLines == 3
MaxPvLen == 6
\* pv[:5]: how many moves of the principal variation are returned.
PvShown == 5

\* The j-th move of the principal variation of the k-th line the engine
\* reported: every move of an answer is a different move.
PvMove(k, j) == 10 * k + j

\* The info dict of the k-th line: its principal variation of n moves
\* (no "pv" key reads as the empty list, line 152) and its score.
Info(k, n, score) == [pv |-> [j \in 1..n |-> PvMove(k, j)], score |-> score, depth |-> n]

\* What engine.analyse(..., multipv=m) can return: a list of one to m info
\* dicts, in the order of the engine's multipv numbers.
Infos(m) ==
    UNION {{[k \in 1..l |-> Info(k, len[k], score)] :
               len \in [1..l -> 0..MaxPvLen], score \in {NoScore, Cp(CpStep)}} :
           l \in 1..m}

\* seq[:n] of Python.
Slice(seq, n) == SubSeq(seq, 1, IF Len(seq) < n THEN Len(seq) ELSE n)

\* analysis_results that returns the whole principal variation.
analysis_results_whole_pv(info) ==
    [i \in 1..Len(info) |->
        [move |-> IF Len(info[i].pv) > 0 THEN Uci(info[i].pv[1]) ELSE None,
         score |-> format_score(info[i].score),
         depth |-> info[i].depth,
         pv |-> [j \in 1..Len(info[i].pv) |-> Uci(info[i].pv[j])]]]

\* The loop of lines 149-160 over the info list: one result per item, in
\* the order of the list.
analysis_results(info) ==
    [i \in 1..Len(info) |->
        [move |-> IF Len(info[i].pv) > 0 THEN Uci(info[i].pv[1]) ELSE None,
         score |-> format_score(info[i].score),
         depth |-> info[i].depth,
         pv |-> [j \in 1..Len(Slice(info[i].pv, PvShown)) |-> Uci(Slice(info[i].pv, PvShown)[j])]]]

\* ---- personas (ollama_service.py:14-47, api/llm.py, api/training.py)
\* The keys of PersonaConfig.PERSONAS, which are the values of the Persona
\* enum, and the texts a client may send as persona: those and a misspelt one.
Personas == {"grandmaster", "friendly_teacher", "aggressive_rival"}
PersonaTexts == Personas \cup {"grandmastr"}
PersonaPaths == {"chat", "explain_move", "opening_guide"}
NoPersona == "none"

\* PersonaConfig.get_persona: the configuration served, by its key.
get_persona(persona_name) ==
    IF persona_name \in Personas THEN persona_name ELSE "friendly_teacher"

\* A request on one of the paths that accept a persona, up to the call of
\* get_persona in OllamaService.chat (ollama_service.py:108): the status of
\* the response, the name that reached get_persona and the persona served.
\* ChatRequest and ExplainMoveRequest declare persona as the Persona enum,
\* so any other text is refused with 422 before the handler runs;
\* generate_opening_guide declares it as str.
persona_request(path, persona, connected, opening_known) ==
    LET unserved(status) == [status |-> status, reached |-> NoPersona, served |-> NoPersona]
        served == [status |-> 200, reached |-> persona, served |-> get_persona(persona)]
    IN  IF path \in {"chat", "explain_move"}
        THEN IF persona \notin Personas THEN unserved(422)
             ELSE IF ~connected THEN unserved(503)
             ELSE served
        ELSE IF ~opening_known THEN unserved(404)
             ELSE IF ~connected THEN unserved(200)
             ELSE served

CalcCalls ==
    {[method |-> "persona_request", path |-> path, persona |-> persona,
      connected |-> connected, opening_known |-> known] :
         path \in PersonaPaths, persona \in PersonaTexts,
         connected \in BOOLEAN, known \in BOOLEAN}
    \cup
    UNION {{[method |-> "analysis_results", multipv |-> m, info |-> info] :
               info \in Infos(m)} : m \in 1..MaxLines}
    \cup {[method |-> "classify_move", score_diff |-> d] : d \in -MaxDelta..MaxDelta}
    \cup {[method |-> "format_score", score |-> s] : s \in Scores}
    \cup {[method |-> "evaluate_move_quality", before |-> b, after |-> a, turn |-> t] :
             b \in Scores, a \in Scores, t \in {WHITE, BLACK}}
    \cup {[method |-> "find_stockfish", fs |-> fs] : fs \in FileSystems}
    \cup {[method |-> "init_stockfish_path", configured |-> p, fs |-> fs] :
             p \in PathStates, fs \in FileSystems}

CalcInit ==
    /\ MgrInit
    /\ GameInit
    /\ call \in CalcCalls
    /\ ret = NoRet

classify_move_call ==
    /\ call.method = "classify_move" /\ ret = NoRet
    /\ ret' = [classification |-> classify_move(call.score_diff)]
    /\ UNCHANGED <<mgr_vars, alive, limit, proto_vars, caller_vars, game_vars, call>>

format_score_call ==
    /\ call.method = "format_score" /\ ret = NoRet
    /\ ret' = format_score(call.score)
    /\ UNCHANGED <<mgr_vars, alive, limit, proto_vars, caller_vars, game_vars, call>>

evaluate_scores_call ==
    /\ call.method = "evaluate_move_quality" /\ ret = NoRet
    /\ ret' = evaluate_scores(call.before, call.after, call.turn)
    /\ UNCHANGED <<mgr_vars, alive, limit, proto_vars, caller_vars, game_vars, call>>

find_stockfish_call ==
    /\ call.method = "find_stockfish" /\ ret = NoRet
    /\ ret' = find_stockfish(call.fs)
    /\ UNCHANGED <<mgr_vars, alive, limit, proto_vars, caller_vars, game_vars, call>>

init_stockfish_path_call ==
    /\ call.method = "init_stockfish_path" /\ ret = NoRet
    /\ ret' = init_stockfish_path(call.configured, call.fs)
    /\ UNCHANGED <<mgr_vars, alive, limit, proto_vars, caller_vars, game_vars, call>>

analysis_results_call ==
    /\ call.method = "analysis_results" /\ ret = NoRet
    /\ ret' = [type |-> "results", results |-> analysis_results(call.info)]
    /\ UNCHANGED <<mgr_vars, alive, limit, proto_vars, caller_vars, game_vars, call>>

persona_request_call ==
    /\ call.method = "persona_request" /\ ret = NoRet
    /\ ret' = persona_request(call.path, call.persona, call.connected, call.opening_known)
    /\ UNCHANGED <<mgr_vars, alive, limit, proto_vars, caller_vars, game_vars, call>>

CalcNext ==
    \/ persona_request_call
    \/ analysis_results_call
    \/ classify_move_call
    \/ format_score_call
    \/ evaluate_scores_call
    \/ find_stockfish_call
    \/ init_stockfish_path_call

CalcSpec == CalcInit /\ [][CalcNext]_vars

\* The pure method `method` has returned.
Returned(method) == call.method = method /\ ret # NoRet

\* C15: for every integer score difference d, _classify_move(d) is the label
\* of the band table: blunder for d <= -300, mistake for -299..-100,
\* inaccuracy for -99..-50, ok for -49..-1, good for 0..99, brilliant for
\* d >= 100 (so -100 is a mistake, -99 an inaccuracy, 99 good, 100 brilliant).
C15_ClassifyFollowsBandTable ==
    Returned("classify_move")
    => LET d == call.score_diff
           label == ret.classification
       IN  /\ label \in {"blunder", "mistake", "inaccuracy", "ok", "good", "brilliant"}
           /\ (label = "blunder") <=> (d <= -300)
           /\ (label = "mistake") <=> (-299 <= d /\ d <= -100)
           /\ (label = "inaccuracy") <=> (-99 <= d /\ d <= -50)
           /\ (label = "ok") <=> (-49 <= d /\ d <= -1)
           /\ (label = "good") <=> (0 <= d /\ d <= 99)
           /\ (label = "brilliant") <=> (d >= 100)

\* _classify_move has returned on a bound of a band.
C15_Witness ==
    /\ Returned("classify_move")
    /\ call.score_diff = -100
    /\ ret.classification = "mistake"
\* C16: in evaluate_move_quality, when the pre-move score is a centipawn
\* score and the post-move score is a mate against the side that made the
\* move (a mate for the side to move after it), the classification is
\* "blunder", whatever the centipawns, the mate distance and the mover.
C16_MateAgainstMoverIsBlunder ==
    ( /\ Returned("evaluate_move_quality")
      /\ call.before.kind = "cp"
      /\ call.after.kind = "mate" /\ call.after.n > 0 )
    => ret.classification = "blunder"

\* C17: in evaluate_move_quality, when the pre-move score is a mate against
\* the mover and the post-move score is a centipawn score, the
\* classification is "brilliant", whatever the mate distance, the
\* centipawns and the mover.
C17_EscapeFromMateIsBrilliant ==
    ( /\ Returned("evaluate_move_quality")
      /\ call.before.kind = "mate" /\ call.before.n < 0
      /\ call.after.kind = "cp" )
    => ret.classification = "brilliant"

\* C18: with both scores in centipawns, b for the mover before the move and
\* a for the opponent after it, score_difference is the change for the
\* mover, (-a) - b, whether White or Black moved, and a change of -300 or
\* worse is classified "blunder".
C18_DifferenceIsFromMoversView ==
    ( /\ Returned("evaluate_move_quality")
      /\ call.before.kind = "cp"
      /\ call.after.kind = "cp" )
    => LET b == call.before.n
           a == call.after.n
       IN  /\ ret.score_difference = (-a) - b
           /\ ((-a) - b <= -300) => ret.classification = "blunder"

C24_ConfiguredPathNotFoundIsAnError ==
    (Returned("init_stockfish_path") /\ call.configured = "missing")
    => /\ ret.raised = "configured path not found"
       /\ ~ret.detection /\ ~ret.popen

\* The first install location, in the order of the list, that holds an
\* executable (0 if none does).
RECURSIVE FirstExecutable(_, _)
FirstExecutable(fs, i) ==
    IF i > NumLocations THEN 0
    ELSE IF fs.at[i] = "executable" THEN i
    ELSE FirstExecutable(fs, i + 1)

\* C25: with no path configured, auto-detection returns the first install
\* location of the fixed list that exists and is executable, the executable
\* on the search path (PATH) only when no install location qualifies, and
\* nothing when that fails too.
C25_InstallLocationsBeforeSearchPath ==
    Returned("find_stockfish")
    => LET i == FirstExecutable(call.fs, 1)
       IN  ret = IF i # 0 THEN [kind |-> "location", index |-> i]
                 ELSE IF call.fs.on_path THEN [kind |-> "PATH", index |-> 0]
                 ELSE NoPath

\* C26: for a score the engine reported, _format_score gives exactly one
\* tag: "mate" with the signed mate distance for the side to move when the
\* engine reports a mate, else "cp" with the signed centipawns for the side
\* to move; never another tag, never none.
C26_ExactlyOneTag ==
    (Returned("format_score") /\ call.score # NoScore)
    => /\ ret.type \in {"mate", "cp"}
       /\ (ret.type = "mate") <=> (call.score.kind = "mate")
       /\ (ret.type = "cp") <=> (call.score.kind = "cp")
       /\ ret.value = call.score.n

\* _format_score has returned a mate against the side to move, and a
\* negative centipawn score.
C26_Witness ==
    /\ Returned("format_score")
    /\ \/ call.score = Mate(-MaxMate) /\ ret.type = "mate" /\ ret.value = -MaxMate
       \/ call.score = Cp(-CpStep) /\ ret.type = "cp" /\ ret.value = -CpStep


\* C31: analyze_position returns one line per info dict the engine reported,
\* in the engine's order (its top choice first) and no more than the lines
\* requested; the pv of each line is the first five moves (or fewer) of that
\* dict's principal variation, and its move is the first move of that
\* variation, or None when the variation is empty.
C31_LinesFollowTheEngine ==
    Returned("analysis_results")
    => LET info == call.info
           results == ret.results
       IN  /\ Len(results) = Len(info)
           /\ Len(results) <= call.multipv
           /\ \A i \in 1..Len(results) :
                 LET pv == info[i].pv
                     line == results[i]
                 IN  /\ Len(line.pv) <= 5
                     /\ Len(line.pv) <= Len(pv)
                     /\ Len(pv) <= 5 => Len(line.pv) = Len(pv)
                     /\ Len(pv) >= 5 => Len(line.pv) = 5
                     /\ \A j \in 1..Len(line.pv) : line.pv[j] = Uci(PvMove(i, j))
                     /\ line.move = IF Len(pv) = 0 THEN None ELSE Uci(PvMove(i, 1))

\* C31 witness: three lines were returned, one of a variation of six moves
\* and one of an empty variation.
C31_Witness ==
    /\ Returned("analysis_results")
    /\ Len(ret.results) = 3
    /\ \E i, k \in 1..3 : Len(call.info[i].pv) = 6 /\ Len(call.info[k].pv) = 0


\* C36: on every path that accepts a persona, a name that reaches
\* PersonaConfig.get_persona is one of grandmaster, friendly_teacher and
\* aggressive_rival, and the persona served is the one named.
C36_OnlyKnownPersonasAreServed ==
    (Returned("persona_request") /\ ret.reached # NoPersona)
    => /\ ret.reached \in {"grandmaster", "friendly_teacher", "aggressive_rival"}
       /\ ret.served = call.persona

====
